---- MODULE Spec2Model ----
(***************************************************************************)
(* A model of armonia vite-plugin-ssr: the plugin closure state (the       *)
(* artifact store manifestSource / templateSource and the build flags),    *)
(* the dev-server middleware installed by configureServer, the virtual     *)
(* module hooks resolveId / load, and the config / buildStart hooks of a   *)
(* production SSR build.                                                   *)
(*                                                                         *)
(* JavaScript values are records [type, val]; strings that the code        *)
(* inspects character by character (request urls, file names) are          *)
(* sequences of one-character strings.                                     *)
(***************************************************************************)
EXTENDS Integers, Sequences, FiniteSets, TLC

\* ------------------------------------------------------------------------
\* Bounds
\* ------------------------------------------------------------------------
MaxRequests == 2

\* how deep sub-builds may nest before the model stops following them
MaxDepth == 2

\* ------------------------------------------------------------------------
\* JavaScript values
\* ------------------------------------------------------------------------
Undef == [type |-> "undefined", val |-> ""]
JSTrue == [type |-> "boolean", val |-> "true"]
JSFalse == [type |-> "boolean", val |-> "false"]
Str(s) == [type |-> "string", val |-> s]
Num(s) == [type |-> "number", val |-> s]
Obj(s) == [type |-> "object", val |-> s]

\* ToBoolean: undefined, false and '' are the falsy values used here
Truthy(v) ==
    ~ \/ v.type = "undefined"
      \/ v = JSFalse
      \/ (v.type = "string" /\ v.val = "")
      \/ (v.type = "number" /\ v.val = "0")

\* a || b
JSOr(a, b) == IF Truthy(a) THEN a ELSE b

\* ------------------------------------------------------------------------
\* Strings as character sequences
\* ------------------------------------------------------------------------
DotHtml == <<".", "h", "t", "m", "l">>

EndsWith(s, suffix) ==
    /\ Len(s) >= Len(suffix)
    /\ SubSeq(s, Len(s) - Len(suffix) + 1, Len(s)) = suffix

\* s.replace(/c.*$/s, ''): drop everything from the first c on
ReplaceFrom(s, c) ==
    IF \E i \in 1..Len(s) : s[i] = c
    THEN LET first == CHOOSE i \in 1..Len(s) :
                          s[i] = c /\ \A j \in 1..(i - 1) : s[j] # c
         IN SubSeq(s, 1, first - 1)
    ELSE s

\* req.url.replace(/#.*$/s, '').replace(/\?.*$/s, '')
StripUrl(url) == ReplaceFrom(ReplaceFrom(url, "#"), "?")

\* s.slice(1)
Slice1(s) == SubSeq(s, 2, Len(s))

\* path.join(root, rest) for a rest without '.', '..' or empty segments
PathJoin(root, rest) == IF rest = <<>> THEN root ELSE root \o <<"/">> \o rest

\* the hex digits of an escape: both cases are accepted
HexDigits == {"0", "1", "2", "3", "4", "5", "6", "7", "8", "9",
              "A", "B", "C", "D", "E", "F",
              "a", "b", "c", "d", "e", "f"}

HexVal(c) ==
    CASE c = "0" -> 0 [] c = "1" -> 1 [] c = "2" -> 2 [] c = "3" -> 3
      [] c = "4" -> 4 [] c = "5" -> 5 [] c = "6" -> 6 [] c = "7" -> 7
      [] c = "8" -> 8 [] c = "9" -> 9 [] c = "A" -> 10 [] c = "B" -> 11
      [] c = "C" -> 12 [] c = "D" -> 13 [] c = "E" -> 14 [] c = "F" -> 15
      [] c = "a" -> 10 [] c = "b" -> 11 [] c = "c" -> 12 [] c = "d" -> 13
      [] c = "e" -> 14 [] c = "f" -> 15

\* the characters of the code points the modelled urls escape
FromCharCode(n) ==
    CASE n = 32 -> " " [] n = 47 -> "/" [] n = 105 -> "i" [] n = 106 -> "j"
      [] OTHER -> "?"

\* decodeURIComponent: [ok |-> FALSE] stands for the URIError it throws on a
\* '%' that is not followed by two hex digits, or on an escaped byte that is
\* not the start of a well-formed UTF-8 sequence (only one-byte sequences are
\* decoded here; a byte >= 0x80 is never followed by continuation bytes in
\* the modelled urls).
RECURSIVE DecodeURIComponent(_)
DecodeURIComponent(s) ==
    IF s = <<>> THEN [ok |-> TRUE, val |-> <<>>]
    ELSE IF Head(s) # "%"
         THEN LET rest == DecodeURIComponent(Tail(s))
              IN [ok |-> rest.ok,
                  val |-> IF rest.ok THEN <<Head(s)>> \o rest.val ELSE <<>>]
         ELSE IF Len(s) < 3 \/ s[2] \notin HexDigits \/ s[3] \notin HexDigits
              THEN [ok |-> FALSE, val |-> <<>>]
              ELSE LET byte == 16 * HexVal(s[2]) + HexVal(s[3])
                       rest == DecodeURIComponent(SubSeq(s, 4, Len(s)))
                   IN IF byte >= 128 \/ ~rest.ok
                      THEN [ok |-> FALSE, val |-> <<>>]
                      ELSE [ok |-> TRUE,
                            val |-> <<FromCharCode(byte)>> \o rest.val]

\* ------------------------------------------------------------------------
\* The project directory served by the dev server
\* ------------------------------------------------------------------------
Root == <<"/", "r">>

FileI == <<"/", "r", "/", "i", ".", "h", "t", "m", "l">>
FileJ == <<"/", "r", "/", "j", ".", "h", "t", "m", "l">>
DirD == <<"/", "r", "/", "d", ".", "h", "t", "m", "l">>

ProjectFiles == {FileI, FileJ, DirD}

\* mutant of ExistsSync: the existence check is skipped
ExistsSync_Always(filename) == TRUE

\* fs.existsSync
ExistsSync(filename) == filename \in ProjectFiles

\* fs.readFileSync(filename, 'utf-8'): the content, or the error thrown
\* (EISDIR for a directory)
ReadFileSync(filename) ==
    CASE filename = FileI -> [ok |-> TRUE, val |-> "A"]
      [] filename = FileJ -> [ok |-> TRUE, val |-> "B"]
      [] OTHER -> [ok |-> FALSE, val |-> ""]

\* ------------------------------------------------------------------------
\* JSON text: a sequence of tokens; a string literal is the three tokens
\* quote, content, quote
\* ------------------------------------------------------------------------
Quote == "\""
Comma == ","
Newline == "\n"
Indent == "  "

RECURSIVE JoinTokens(_, _)
\* the token sequences of parts, separated by sep
JoinTokens(parts, sep) ==
    IF parts = <<>> THEN <<>>
    ELSE IF Len(parts) = 1 THEN parts[1]
    ELSE parts[1] \o sep \o JoinTokens(Tail(parts), sep)

StringLiteral(str) == <<Quote, str, Quote>>

\* JSON.stringify(manifest, null, 2) of a Manifest, an ordered list of
\* [key, assets] entries
StringifyAssets(assets) ==
    IF assets = <<>> THEN <<"[", "]">>
    ELSE <<"[", Newline, Indent, Indent>>
         \o JoinTokens([i \in 1..Len(assets) |-> StringLiteral(assets[i])],
                       <<Comma, Newline, Indent, Indent>>)
         \o <<Newline, Indent, "]">>

StringifyManifest(manifest) ==
    IF manifest = <<>> THEN <<"{", "}">>
    ELSE <<"{", Newline, Indent>>
         \o JoinTokens([i \in 1..Len(manifest) |->
                           StringLiteral(manifest[i].key) \o <<":", " ">>
                           \o StringifyAssets(manifest[i].assets)],
                       <<Comma, Newline, Indent>>)
         \o <<Newline, "}">>

Whitespace == {Newline, Indent, " "}

NotWhitespace(t) == t \notin Whitespace

ParseFail == [ok |-> FALSE, val |-> <<>>, next |-> 0]

\* a string literal at position i of ts
ParseString(ts, i) ==
    IF i + 2 <= Len(ts) /\ ts[i] = Quote /\ ts[i + 1] # Quote /\ ts[i + 2] = Quote
    THEN [ok |-> TRUE, val |-> ts[i + 1], next |-> i + 3]
    ELSE ParseFail

RECURSIVE ParseStrings(_, _, _)
\* the elements of an array after its '[', up to and including its ']'
ParseStrings(ts, i, acc) ==
    LET elem == ParseString(ts, i)
    IN IF ~elem.ok \/ elem.next > Len(ts) THEN ParseFail
       ELSE IF ts[elem.next] = "]"
            THEN [ok |-> TRUE, val |-> Append(acc, elem.val),
                  next |-> elem.next + 1]
       ELSE IF ts[elem.next] = Comma
            THEN ParseStrings(ts, elem.next + 1, Append(acc, elem.val))
       ELSE ParseFail

ParseAssets(ts, i) ==
    IF i + 1 > Len(ts) \/ ts[i] # "[" THEN ParseFail
    ELSE IF ts[i + 1] = "]" THEN [ok |-> TRUE, val |-> <<>>, next |-> i + 2]
    ELSE ParseStrings(ts, i + 1, <<>>)

\* the array index a property key stands for, -1 for any other key; the
\* integer-like keys of the modelled texts have one digit
ArrayIndex(key) ==
    CASE key = "0" -> 0 [] key = "1" -> 1 [] key = "2" -> 2 [] key = "3" -> 3
      [] key = "4" -> 4 [] key = "5" -> 5 [] key = "6" -> 6 [] key = "7" -> 7
      [] key = "8" -> 8 [] key = "9" -> 9 [] OTHER -> -1

\* a member assigned to an object, whose entries are listed in property
\* order: a repeated key keeps its position, a new integer-like key goes
\* after the smaller integer-like keys and before every other key, any other
\* new key goes last
SetMember(manifest, key, assets) ==
    LET entry == [key |-> key, assets |-> assets]
        before == Cardinality({i \in 1..Len(manifest) :
                      /\ ArrayIndex(manifest[i].key) >= 0
                      /\ ArrayIndex(manifest[i].key) < ArrayIndex(key)})
    IN IF \E i \in 1..Len(manifest) : manifest[i].key = key
       THEN [i \in 1..Len(manifest) |->
                IF manifest[i].key = key THEN entry ELSE manifest[i]]
       ELSE IF ArrayIndex(key) >= 0
            THEN SubSeq(manifest, 1, before) \o <<entry>>
                 \o SubSeq(manifest, before + 1, Len(manifest))
            ELSE Append(manifest, entry)

RECURSIVE ParseMembers(_, _, _)
\* the members of an object after its '{', up to and including its '}'
ParseMembers(ts, i, acc) ==
    LET key == ParseString(ts, i)
    IN IF ~key.ok \/ key.next > Len(ts) \/ ts[key.next] # ":" THEN ParseFail
       ELSE LET assets == ParseAssets(ts, key.next + 1)
            IN IF ~assets.ok \/ assets.next > Len(ts) THEN ParseFail
               ELSE IF ts[assets.next] = "}"
                    THEN [ok |-> TRUE,
                          val |-> SetMember(acc, key.val, assets.val),
                          next |-> assets.next + 1]
               ELSE IF ts[assets.next] = Comma
                    THEN ParseMembers(ts, assets.next + 1,
                                      SetMember(acc, key.val, assets.val))
               ELSE ParseFail

\* JSON.parse of a text holding a Manifest: [ok |-> FALSE] stands for the
\* SyntaxError it throws
ParseManifest(text) ==
    LET ts == SelectSeq(text, NotWhitespace)
        members == IF Len(ts) >= 2 /\ ts[1] = "{"
                   THEN IF ts[2] = "}"
                        THEN [ok |-> TRUE, val |-> <<>>, next |-> 3]
                        ELSE ParseMembers(ts, 2, <<>>)
                   ELSE ParseFail
    IN IF members.ok /\ members.next = Len(ts) + 1
       THEN [ok |-> TRUE, val |-> members.val]
       ELSE [ok |-> FALSE, val |-> <<>>]

\* ------------------------------------------------------------------------
\* Configuration: a (partial) vite config is a function from the keys it
\* sets to JavaScript values
\* ------------------------------------------------------------------------
KeyPublicDir == "publicDir"
KeyEmptyOutDir == "build.emptyOutDir"
KeyEntryFileNames == "build.rollupOptions.output.entryFileNames"
KeyMinify == "build.minify"
KeySsr == "build.ssr"
KeyInput == "build.rollupOptions.input"
KeyWrite == "build.write"
KeyOutDir == "build.outDir"

EmptyConfig == [k \in {} |-> Undef]

Get(cfg, key) == IF key \in DOMAIN cfg THEN cfg[key] ELSE Undef

\* mutant of MergeConfig: the first configuration wins a conflict
MergeConfig_DefaultsWin(defaults, overrides) ==
    [k \in DOMAIN defaults \cup DOMAIN overrides |->
        IF Get(defaults, k).type = "undefined"
        THEN Get(overrides, k) ELSE Get(defaults, k)]

\* vite's mergeConfig(defaults, overrides) on primitive leaves: a key the
\* overrides set to a non-null value takes that value
MergeConfig(defaults, overrides) ==
    [k \in DOMAIN defaults \cup DOMAIN overrides |->
        IF Get(overrides, k).type = "undefined"
        THEN Get(defaults, k) ELSE Get(overrides, k)]

\* ------------------------------------------------------------------------
\* State
\* ------------------------------------------------------------------------
VARIABLES
    options,          \* the PluginOptions passed to ssr()
    config,           \* the host configuration (server.config / user config)
    env,              \* the ConfigEnv passed to the config hook
    generateSSRBuild, \* closure flag, line 107
    emptyOutDir,      \* closure variable, line 108
    manifestSource,   \* the stored Manifest, line 110
    templateSource,   \* the stored Template, line 111
    resolvedConfig,   \* closure variable, line 109
    hookConfig,       \* what the config hook returned
    disk,             \* the output directory of the build
    bs,               \* the position and the effects of buildStart
    imported,         \* the last module the bundler asked the plugin for
    req               \* the dev requests: the middleware's locals and effects

vars == <<options, config, env, generateSSRBuild, emptyOutDir,
          manifestSource, templateSource, resolvedConfig, hookConfig,
          disk, bs, imported, req>>

pluginInputs == <<options, config, env>>

buildVars == <<generateSSRBuild, emptyOutDir, resolvedConfig, hookConfig,
               disk, bs, imported>>

\* ------------------------------------------------------------------------
\* Dev middleware: the pieces of the handler
\* ------------------------------------------------------------------------
Requests == 1..MaxRequests

\* lines 233-240: the ssr entry module, or undefined
ResolveSsrModule(optSsr, buildSsr, rollupInput) ==
    LET first == JSOr(optSsr, buildSsr)
        ssrInput == IF first = JSTrue THEN rollupInput ELSE first
    IN IF ssrInput.type = "string" THEN ssrInput ELSE Undef

\* mutant of ShouldIntercept: the fetch destination is not looked at
ShouldIntercept_AnyDest(url, dest) == EndsWith(url, DotHtml)

\* line 250: url?.endsWith('.html') && req.headers['sec-fetch-dest'] !== 'script'
ShouldIntercept(url, dest) == EndsWith(url, DotHtml) /\ dest # "script"

\* line 251: decodeURIComponent(path.join(server.config.root, url.slice(1)))
Filename(root, url) == DecodeURIComponent(PathJoin(root, Slice1(url)))

\* server.transformIndexHtml(url, template, req.originalUrl): the html the
\* host plugins produce for this document
HostTransformIndexHtml(html) == "H(" \o html \o ")"

\* lines 196-198: the plugin's own transformIndexHtml hook, html || ''
TransformIndexHtmlHook(html) == html

\* the values options.transformTemplate resolves to
TransformTemplateResults(html) ==
    {Str("T(" \o html \o ")"), Undef, Num("7"), JSTrue}

\* lines 129-132: the stored template after the hook resolved to result
SaveTemplate(stored, result) ==
    IF result.type = "string" THEN result.val ELSE stored

\* a value that is undefined, null, a manifest or a JSON text: type is its
\* typeof, with "null" for null; an object carries a manifest and a string
\* carries a text
ManifestValue(type, manifest, text) ==
    [type |-> type, manifest |-> manifest, text |-> text]

NoManifestResult == ManifestValue("undefined", <<>>, <<>>)

NoRenderContext == [passed |-> FALSE, manifest |-> NoManifestResult]

\* mutant of RenderContext: the manifest is left out of the context
RenderContext_NoManifest(opts, manifest) ==
    IF opts.render THEN [passed |-> TRUE, manifest |-> NoManifestResult]
    ELSE NoRenderContext

\* lines 276-287: the RenderContext options.render is called with; the
\* default renderer is called with the request and the template only
RenderContext(opts, manifest) ==
    IF opts.render
    THEN [passed |-> TRUE, manifest |-> ManifestValue("object", manifest, <<>>)]
    ELSE NoRenderContext

\* the values the render function resolves to
RenderResults(template) == {Str("R(" \o template \o ")"), Undef}

\* mutant of RenderedBody: the render result is dropped
RenderedBody_TemplateOnly(renderedTemplate, template) == template

\* line 290: typeof renderedTemplate === 'string' ? renderedTemplate : template
RenderedBody(renderedTemplate, template) ==
    IF renderedTemplate.type = "string" THEN renderedTemplate.val ELSE template

\* the effects a request can have on its collaborators
\* the calls a request's handler can make; "manifestHook" stands for
\* applyManifestTransformation, which the middleware has no call of
Effects ==
    {"exists", "read", "html", "hook", "manifestHook", "load", "render",
     "store"}

NewRequest ==
    [pc |-> "idle", url |-> <<>>, dest |-> "", ended |-> FALSE,
     template |-> "", own |-> "", hookArg |-> "", renderArg |-> "",
     rendered |-> Undef, context |-> NoRenderContext, module |-> Undef,
     nextCalls |-> 0, nextErr |-> "none", sent |-> FALSE, body |-> "",
     threw |-> "none", calls |-> [e \in Effects |-> 0]]

Count(rq, e) == [rq EXCEPT !.calls[e] = @ + 1]

\* the invocation is over: its locals are gone
Return(rq) ==
    [rq EXCEPT !.pc = "done", !.template = "", !.own = "", !.hookArg = "",
               !.renderArg = ""]

\* next(): lines 229, 244, 302
CallNext(rq) == [Return(rq) EXCEPT !.nextCalls = @ + 1]

\* mutant of CatchNext: the error is swallowed
CatchNext_Swallow(rq, e) == [Return(rq) EXCEPT !.threw = e]

\* lines 296-298: catch (e) { return next(e) }
CatchNext(rq, e) ==
    [Return(rq) EXCEPT !.nextCalls = @ + 1, !.nextErr = e, !.threw = e]

\* an exception that leaves the async handler: the promise it returned is
\* rejected and nobody calls next
Reject(rq, e) == [Return(rq) EXCEPT !.threw = e]

\* send(req, res, template, 'html', ...): lines 293-295
Send(rq, body) == [Return(rq) EXCEPT !.sent = TRUE, !.body = body]

\* ------------------------------------------------------------------------
\* Dev middleware: the requests the model sends
\* ------------------------------------------------------------------------
UrlI == <<"/", "i", ".", "h", "t", "m", "l">>
UrlIQuery == <<"/", "i", ".", "h", "t", "m", "l", "?", "v", "#", ".", "j", "s">>
UrlJEscaped == <<"/", "%", "6", "a", ".", "h", "t", "m", "l">>
UrlDir == <<"/", "d", ".", "h", "t", "m", "l">>
UrlMissing == <<"/", "n", ".", "h", "t", "m", "l">>
UrlMalformed == <<"/", "%", ".", "h", "t", "m", "l">>
UrlScript == <<"/", "m", ".", "j", "s", "?", "x", ".", "h", "t", "m", "l">>

RequestInputs ==
    {[url |-> UrlIQuery, dest |-> "document", ended |-> FALSE],
     [url |-> UrlJEscaped, dest |-> "document", ended |-> FALSE],
     [url |-> UrlDir, dest |-> "document", ended |-> FALSE],
     [url |-> UrlMissing, dest |-> "document", ended |-> FALSE],
     [url |-> UrlMalformed, dest |-> "document", ended |-> FALSE],
     [url |-> UrlScript, dest |-> "document", ended |-> FALSE],
     [url |-> UrlI, dest |-> "script", ended |-> FALSE],
     [url |-> UrlI, dest |-> "document", ended |-> TRUE]}

\* the ssr entry the handler resolves for the running server
SsrModule == ResolveSsrModule(options.ssr, config.ssr, config.input)

\* ------------------------------------------------------------------------
\* Dev middleware: the handler, one action per synchronous stretch
\* ------------------------------------------------------------------------

\* lines 227-259: from the invocation to the first await
HandleRequest(r) ==
    /\ req[r].pc = "idle"
    /\ \E in \in RequestInputs :
        LET rq == [req[r] EXCEPT !.url = in.url, !.dest = in.dest,
                                 !.ended = in.ended]
            url == StripUrl(in.url)
            filename == Filename(config.root, url)
            read == ReadFileSync(filename.val)
        IN req' = [req EXCEPT ![r] =
             IF in.ended THEN CallNext(rq)
             ELSE IF ~Truthy(SsrModule) THEN CallNext(rq)
             ELSE IF ~ShouldIntercept(url, in.dest) THEN CallNext(rq)
             ELSE IF ~filename.ok THEN Reject(rq, "URIError")
             ELSE IF ~ExistsSync(filename.val) THEN CallNext(Count(rq, "exists"))
             ELSE IF ~read.ok
                  THEN CatchNext(Count(Count(rq, "exists"), "read"), "read")
             ELSE [Count(Count(rq, "exists"), "read") EXCEPT
                      !.pc = "transformIndexHtml", !.template = read.val,
                      !.own = read.val]]
    /\ UNCHANGED <<pluginInputs, buildVars, manifestSource, templateSource>>

\* line 259, inside server.transformIndexHtml: the host transforms run, the
\* plugin's own transformIndexHtml hook (lines 196-198) stores their result,
\* and the promise resolves; or a host transform throws
TransformIndexHtml(r) ==
    /\ req[r].pc = "transformIndexHtml"
    /\ \/ LET html == HostTransformIndexHtml(req[r].template)
          IN /\ templateSource' = TransformIndexHtmlHook(html)
             /\ req' = [req EXCEPT ![r] =
                   [Count(Count(@, "html"), "store") EXCEPT
                       !.pc = "afterTransformIndexHtml",
                       !.template = html, !.own = html]]
       \/ /\ req' = [req EXCEPT ![r] = CatchNext(Count(@, "html"), "html")]
          /\ UNCHANGED templateSource
    /\ UNCHANGED <<pluginInputs, buildVars, manifestSource>>

\* lines 259-265 and 127: the handler resumes, stores its template and calls
\* the template transform with the stored template
StoreTemplate(r) ==
    /\ req[r].pc = "afterTransformIndexHtml"
    /\ templateSource' = req[r].template
    /\ req' = [req EXCEPT ![r] =
          [(IF options.transformTemplate
            THEN Count(Count(@, "store"), "hook")
            ELSE Count(@, "store")) EXCEPT
              !.pc = "transformTemplate", !.hookArg = req[r].template]]
    /\ UNCHANGED <<pluginInputs, buildVars, manifestSource>>

\* lines 127-132: the template transform settles; a string is saved
TransformTemplate(r) ==
    /\ req[r].pc = "transformTemplate"
    /\ \/ \E result \in (IF options.transformTemplate
                         THEN TransformTemplateResults(req[r].hookArg)
                         ELSE {Undef}) :
            /\ templateSource' = SaveTemplate(templateSource, result)
            /\ req' = [req EXCEPT ![r] =
                  [(IF result.type = "string" THEN Count(@, "store") ELSE @)
                   EXCEPT !.pc = "afterTransformTemplate",
                          !.own = SaveTemplate(@, result)]]
       \/ /\ options.transformTemplate
          /\ req' = [req EXCEPT ![r] = CatchNext(@, "hook")]
          /\ UNCHANGED templateSource
    /\ UNCHANGED <<pluginInputs, buildVars, manifestSource>>

\* lines 265-271: the handler resumes, takes the stored template and starts
\* loading the ssr module
TakeTemplate(r) ==
    /\ req[r].pc = "afterTransformTemplate"
    /\ req' = [req EXCEPT ![r] =
          [Count(@, "load") EXCEPT !.pc = "ssrLoadModule",
                                   !.template = templateSource,
                                   !.module = SsrModule]]
    /\ UNCHANGED <<pluginInputs, buildVars, manifestSource, templateSource>>

\* lines 271-287: the module is loaded and the render function is called
\* with the request's template; or loading throws
Render(r) ==
    /\ req[r].pc = "ssrLoadModule"
    /\ \/ req' = [req EXCEPT ![r] =
             [Count(@, "render") EXCEPT
                 !.pc = "render",
                 !.renderArg = req[r].template,
                 !.context = RenderContext(options, manifestSource)]]
       \/ req' = [req EXCEPT ![r] = CatchNext(@, "load")]
    /\ UNCHANGED <<pluginInputs, buildVars, manifestSource, templateSource>>

\* lines 277-298: the render function settles and the page is sent; or the
\* render function or send throws
SendPage(r) ==
    /\ req[r].pc = "render"
    /\ \/ \E rendered \in RenderResults(req[r].renderArg) :
            LET template == RenderedBody(rendered, req[r].template)
            IN \/ req' = [req EXCEPT ![r] =
                     Send([@ EXCEPT !.rendered = rendered], template)]
               \/ req' = [req EXCEPT ![r] = CatchNext(@, "send")]
       \/ req' = [req EXCEPT ![r] = CatchNext(@, "render")]
    /\ UNCHANGED <<pluginInputs, buildVars, manifestSource, templateSource>>

\* ------------------------------------------------------------------------
\* Virtual modules
\* ------------------------------------------------------------------------
DefaultManifestName == "ssr:manifest"
DefaultTemplateName == "ssr:template"

\* line 104
SsrManifestName(opts) ==
    IF Truthy(opts.manifestId) THEN opts.manifestId.val ELSE DefaultManifestName

\* line 105
SsrTemplateName(opts) ==
    IF Truthy(opts.manifestId) THEN opts.manifestId.val ELSE DefaultTemplateName

\* lines 201-205: the resolved id, or undefined
ResolveId(opts, source) ==
    IF source = SsrManifestName(opts) \/ source = SsrTemplateName(opts)
    THEN Str(source) ELSE Undef

ExportDefault == "export default "

\* lines 207-221: the source text of the module, or nothing
Load(opts, id, manifest, template) ==
    IF id = SsrManifestName(opts)
    THEN [loaded |-> TRUE,
          code |-> <<ExportDefault>> \o StringifyManifest(manifest)]
    ELSE IF id = SsrTemplateName(opts)
    THEN [loaded |-> TRUE, code |-> <<ExportDefault>> \o StringLiteral(template)]
    ELSE [loaded |-> FALSE, code |-> <<>>]

\* ------------------------------------------------------------------------
\* Production build: the config hook
\* ------------------------------------------------------------------------
BuildConfigOf(opts) ==
    IF opts.buildConfig.kind = "object" THEN opts.buildConfig.cfg ELSE EmptyConfig

\* mutant of DetectSsrBuild: the mode is not looked at
DetectSsrBuild_AnyMode(opts, cfg, e) ==
    /\ opts.buildConfig.kind # "false"
    /\ e.command = "build"
    /\ Get(cfg, KeySsr).type = "string"

\* lines 140-147
DetectSsrBuild(opts, cfg, e) ==
    /\ opts.buildConfig.kind # "false"
    /\ e.mode = "production"
    /\ e.command = "build"
    /\ Get(cfg, KeySsr).type = "string"

\* lines 160-175
BuiltinDefaults == (KeyEntryFileNames :> Str("[name].js"))

\* mutant of ForcedConfig: build.emptyOutDir is not forced off
ForcedConfig_KeepEmptyOutDir == (KeyPublicDir :> JSFalse)

\* lines 178-183
ForcedConfig == (KeyPublicDir :> JSFalse) @@ (KeyEmptyOutDir :> JSFalse)

\* lines 158-184: the configuration the hook returns for an SSR build
SsrBuildConfig(opts) ==
    MergeConfig(MergeConfig(BuiltinDefaults, BuildConfigOf(opts)), ForcedConfig)

\* ------------------------------------------------------------------------
\* Production build: paths and the resolved configuration
\* ------------------------------------------------------------------------
BuildRoot == <<"r">>

\* the directory names of the modelled configurations, as path segments
AbsoluteDirs == {"/x/out"}

Segments(dir) ==
    CASE dir = "dist" -> <<"dist">>
      [] dir = "/x/out" -> <<"x", "out">>
      [] dir = "static" -> <<"static">>
      [] dir = "public" -> <<"public">>
      [] dir = "www" -> <<"www">>
      [] OTHER -> <<dir>>

\* path.resolve(root, dir)
PathResolve(root, dir) ==
    IF dir \in AbsoluteDirs THEN Segments(dir) ELSE root \o Segments(dir)

\* path.basename
Basename(segments) ==
    IF segments = <<>> THEN "" ELSE segments[Len(segments)]

\* normalizePath(outDir).startsWith(config.root + '/')
InsideRoot(dir, root) ==
    /\ Len(dir) > Len(root)
    /\ SubSeq(dir, 1, Len(root)) = root

\* vite's resolveConfig, for the settings buildStart reads
ResolveConfig(cfg) ==
    LET publicDir == Get(cfg, KeyPublicDir)
    IN [root |-> BuildRoot,
        outDir |-> IF Get(cfg, KeyOutDir).type = "string"
                   THEN Get(cfg, KeyOutDir).val ELSE "dist",
        write |-> Get(cfg, KeyWrite) # JSFalse,
        emptyOutDir |-> Get(cfg, KeyEmptyOutDir),
        publicDir |-> IF publicDir = JSFalse \/ publicDir = Str("")
                      THEN <<>>
                      ELSE IF publicDir.type = "string"
                           THEN PathResolve(BuildRoot, publicDir.val)
                           ELSE PathResolve(BuildRoot, "public"),
        input |-> Get(cfg, KeyInput)]

NoResolvedConfig ==
    [root |-> BuildRoot, outDir |-> "dist", write |-> TRUE,
     emptyOutDir |-> Undef, publicDir |-> <<>>, input |-> Undef]

\* ------------------------------------------------------------------------
\* Production build: the output directory
\* ------------------------------------------------------------------------
NoText == [exists |-> FALSE, data |-> <<>>]
NoHtml == [exists |-> FALSE, data |-> ""]
TextFile(tokens) == [exists |-> TRUE, data |-> tokens]
HtmlFile(html) == [exists |-> TRUE, data |-> html]

NoClient == [built |-> FALSE, manifest |-> NoText, template |-> NoHtml]

\*  exists         the output directory exists
\*  entries        its top-level entries other than the files below
\*  finalManifest  <outDir>/ssr-manifest.json
\*  finalTemplate  <outDir>/<basename of the template file>
\*  client         the client sub-build's directory inside it
NoDisk ==
    [exists |-> FALSE, entries |-> {}, finalManifest |-> NoText,
     finalTemplate |-> NoHtml, client |-> NoClient]

StaleManifest == <<[key |-> "old.js", assets |-> <<"old.css">>]>>

StaleDisk ==
    [exists |-> TRUE, entries |-> {".git", "old.js"},
     finalManifest |-> TextFile(StringifyManifest(StaleManifest)),
     finalTemplate |-> NoHtml, client |-> NoClient]

\* mutant of EmptyDir: the skip list is not looked at
EmptyDir_NoSkip(d) ==
    [d EXCEPT !.entries = {}, !.finalManifest = NoText,
              !.finalTemplate = NoHtml, !.client = NoClient]

\* lines 9-25: emptyDir(outDir, ['.git'])
EmptyDir(d) ==
    [d EXCEPT !.entries = @ \cap {".git"}, !.finalManifest = NoText,
              !.finalTemplate = NoHtml, !.client = NoClient]

\* mutant of PrepareOutDirCase: the check of the project root is left out
PrepareOutDirCase_NoRootCheck(d, outDir, empty, rc) ==
    IF ~d.exists THEN "keep"
    ELSE IF empty # JSFalse THEN "empty"
    ELSE "keep"

\* lines 28-43: what prepareOutDir does, "warn", "empty" or "keep"
PrepareOutDirCase(d, outDir, empty, rc) ==
    IF ~d.exists THEN "keep"
    ELSE IF empty.type = "undefined" /\ ~InsideRoot(outDir, rc.root) THEN "warn"
    ELSE IF empty # JSFalse THEN "empty"
    ELSE "keep"

\* lines 318-324: the client sub-build's output directory
ClientOutDir(rc) ==
    PathResolve(rc.root, rc.outDir)
       \o <<Basename(IF rc.publicDir # <<>> THEN rc.publicDir ELSE <<"www">>)>>

\* the names of the modelled entries that end in '.html'
HtmlNames == {"index.html"}

\* lines 342-346: whether a template file name is derived from the input
HasTemplateFile(rc) ==
    LET input == IF Truthy(rc.input) THEN rc.input ELSE Str("index.html")
    IN input.type = "string" /\ input.val \in HtmlNames

\* lines 356, 370: options?.writeManifest !== false
ShouldWrite(opts) == opts.writeManifest # JSFalse

\* the values options.transformManifest resolves to
HookManifest == <<[key |-> "main.js", assets |-> <<"hooked.css">>]>>

\* a text JSON.parse rejects
TruncatedJson == <<"{", Quote, "main.js">>

\* a JSON text of the manifest with two more members, the integer-like key
\* written last
ExtendedJson(manifest) ==
    StringifyManifest(manifest \o <<[key |-> "extra.js", assets |-> <<>>],
                                    [key |-> "1", assets |-> <<>>]>>)

TransformManifestResults(manifest) ==
    {NoManifestResult,
     ManifestValue("object", HookManifest, <<>>),
     ManifestValue("string", <<>>, ExtendedJson(manifest)),
     ManifestValue("number", <<>>, <<>>),
     ManifestValue("boolean", <<>>, <<>>),
     ManifestValue("string", <<>>, TruncatedJson),
     ManifestValue("string", <<>>, <<"5">>),
     ManifestValue("string", <<>>, <<"null">>)}

\* the JSON literals of the modelled texts and the typeof of their values
LiteralType(token) ==
    CASE token = "null" -> "null"
      [] token \in {"true", "false"} -> "boolean"
      [] token \in {"0", "5"} -> "number"
      [] OTHER -> "none"

\* line 117: JSON.parse(manifest) of a text that holds a literal or an
\* object of string arrays; [ok |-> FALSE] stands for its SyntaxError
JsonParse(text) ==
    LET ts == SelectSeq(text, NotWhitespace)
    IN IF Len(ts) = 1 /\ LiteralType(ts[1]) # "none"
       THEN [ok |-> TRUE, val |-> ManifestValue(LiteralType(ts[1]), <<>>, <<>>)]
       ELSE LET parsed == ParseManifest(text)
            IN [ok |-> parsed.ok,
                val |-> ManifestValue("object", parsed.val, <<>>)]

\* lines 116-123: the stored manifest after the hook resolved to result;
\* [ok |-> FALSE] stands for the error JSON.parse throws
SaveManifest(stored, result) ==
    LET parsed == IF result.type = "string" THEN JsonParse(result.text)
                  ELSE [ok |-> TRUE, val |-> result]
    IN IF ~parsed.ok THEN [ok |-> FALSE, val |-> stored]
       ELSE IF parsed.val.type = "object"
            THEN [ok |-> TRUE, val |-> parsed.val.manifest]
            ELSE [ok |-> TRUE, val |-> stored]

\* what the client sub-build emits
ClientManifest == <<[key |-> "main.js", assets |-> <<"main.css", "vendor.js">>]>>
ClientTemplate == "<html>"

NoHookConfig == [returned |-> FALSE, cfg |-> EmptyConfig]

NoImport == [source |-> "", resolved |-> FALSE, loaded |-> FALSE, code |-> <<>>]

\*  pc              the hook or step the build is at
\*  log             the effects of buildStart, in order
\*  error           what made buildStart fail
\*  subBuild        the inline configuration build() was called with
\*  depth           how many sub-builds were started from within sub-builds
\*  manifestResult  what the manifest transform last resolved to
\*  templateResult  what the template transform last resolved to
NewBuild ==
    [pc |-> "config", log |-> <<>>, error |-> "none",
     subBuild |-> [outDir |-> <<>>, ssr |-> Undef, ssrManifest |-> Undef],
     depth |-> 0,
     manifestResult |-> NoManifestResult, templateResult |-> Undef]

Log(b, events) == [b EXCEPT !.log = @ \o events]

\* ------------------------------------------------------------------------
\* Production build: the hooks, one action per synchronous stretch
\* ------------------------------------------------------------------------

\* lines 139-185: the config hook
ConfigHook ==
    /\ bs.pc = "config"
    /\ IF DetectSsrBuild(options, config, env)
       THEN /\ generateSSRBuild' = TRUE
            /\ emptyOutDir' = Get(config, KeyEmptyOutDir)
            /\ hookConfig' = [returned |-> TRUE, cfg |-> SsrBuildConfig(options)]
       ELSE /\ hookConfig' = [returned |-> FALSE, cfg |-> EmptyConfig]
            /\ UNCHANGED <<generateSSRBuild, emptyOutDir>>
    /\ bs' = [bs EXCEPT !.pc = "configResolved"]
    /\ UNCHANGED <<pluginInputs, manifestSource, templateSource,
                   resolvedConfig, disk, imported, req>>

\* lines 187-189: the host merges what the config hook returned into the
\* user configuration, resolves it and hands it to configResolved
ConfigResolved ==
    /\ bs.pc = "configResolved"
    /\ resolvedConfig' = ResolveConfig(MergeConfig(config, hookConfig.cfg))
    /\ bs' = [bs EXCEPT !.pc = "buildStart"]
    /\ UNCHANGED <<pluginInputs, generateSSRBuild, emptyOutDir, manifestSource,
                   templateSource, hookConfig, disk, imported, req>>

\* mutant of InlineBuildConfig: ssr is not switched off
InlineBuildConfig_SsrKept(outDir) ==
    [outDir |-> outDir, ssr |-> Undef, ssrManifest |-> JSTrue]

\* lines 326-333: the inline configuration build() is called with
InlineBuildConfig(outDir) ==
    [outDir |-> outDir, ssr |-> JSFalse, ssrManifest |-> JSTrue]

\* lines 140-147, 327: the sub-build loads the configuration file again,
\* merges the inline configuration over it and calls the config hook of its
\* own plugin instance, created with the same options
NestedDetectsSsrBuild(inline) ==
    DetectSsrBuild(options, MergeConfig(config, (KeySsr :> inline.ssr)), env)

\* lines 307-333: buildStart up to the call of the client sub-build
BuildStart ==
    /\ bs.pc = "buildStart"
    /\ IF ~generateSSRBuild
       THEN /\ bs' = [bs EXCEPT !.pc = "done"]
            /\ UNCHANGED disk
       ELSE LET outDir == PathResolve(resolvedConfig.root, resolvedConfig.outDir)
                prepare == IF resolvedConfig.write
                           THEN PrepareOutDirCase(disk, outDir, emptyOutDir,
                                                  resolvedConfig)
                           ELSE "keep"
                events == IF prepare = "keep" THEN <<>> ELSE <<prepare>>
            IN /\ disk' = IF prepare = "empty" THEN EmptyDir(disk) ELSE disk
               /\ bs' = [Log(bs, events \o <<"build">>) EXCEPT
                            !.pc = "build",
                            !.subBuild =
                                InlineBuildConfig(ClientOutDir(resolvedConfig))]
    /\ UNCHANGED <<pluginInputs, generateSSRBuild, emptyOutDir, manifestSource,
                   templateSource, resolvedConfig, hookConfig, imported, req>>

\* mutant of SubBuildThrew: the error is caught and buildStart carries on
SubBuildThrew_Caught(b) ==
    [Log(b, <<"built">>) EXCEPT !.pc = "harvest", !.error = "build"]

\* line 326: `await build(...)` is not inside a try, so the error the
\* sub-build throws rejects buildStart
SubBuildThrew(b) == [b EXCEPT !.pc = "failed", !.error = "build"]

\* line 326: the client sub-build runs. The plugin instance of the
\* sub-build is inert and the sub-build throws or leaves its files in its
\* output directory; an instance that detected an SSR build would start a
\* sub-build of its own from its buildStart, and the first one would wait
\* for that
SubBuild ==
    /\ bs.pc = "build"
    /\ IF NestedDetectsSsrBuild(bs.subBuild)
       THEN /\ bs.depth < MaxDepth
            /\ bs' = [Log(bs, <<"build">>) EXCEPT !.depth = @ + 1]
            /\ UNCHANGED disk
       ELSE
       \/ /\ bs' = SubBuildThrew(bs)
          /\ UNCHANGED disk
       \/ \E m \in BOOLEAN :
          \E t \in (IF HasTemplateFile(resolvedConfig) THEN BOOLEAN ELSE {FALSE}) :
            /\ disk' = [disk EXCEPT
                  !.exists = TRUE,
                  !.client =
                     [built |-> TRUE,
                      manifest |-> IF m
                                   THEN TextFile(StringifyManifest(ClientManifest))
                                   ELSE NoText,
                      template |-> IF t THEN HtmlFile(ClientTemplate) ELSE NoHtml]]
            /\ bs' = [Log(bs, <<"built">>) EXCEPT !.pc = "harvest"]
    /\ UNCHANGED <<pluginInputs, generateSSRBuild, emptyOutDir, manifestSource,
                   templateSource, resolvedConfig, hookConfig, imported, req>>

\* mutant of TransformEvents: the hook is called a second time
TransformEvents_Twice(configured, event) ==
    IF configured THEN <<event, event>> ELSE <<>>

\* lines 114, 127: `options?.transformX?.call(...)` calls the hook when the
\* options configure it
TransformEvents(configured, event) ==
    IF configured THEN <<event>> ELSE <<>>

\* mutant of HarvestTemplate: the file is not deleted after it was read
HarvestTemplate_NoUnlink(d, b) ==
    IF HasTemplateFile(resolvedConfig) /\ d.client.template.exists
    THEN [disk |-> d,
          bs |-> [Log(b, <<"read template", "store template">>
                         \o TransformEvents(options.transformTemplate,
                                            "transform template"))
                  EXCEPT !.pc = "transformTemplate"],
          templateSource |-> d.client.template.data]
    ELSE [disk |-> d, bs |-> [b EXCEPT !.pc = "done"],
          templateSource |-> templateSource]

\* mutant of HarvestTemplate: the file is read without looking for it, and
\* reading a file that is not there throws
HarvestTemplate_NoExistsCheck(d, b) ==
    IF HasTemplateFile(resolvedConfig)
    THEN IF d.client.template.exists
         THEN [disk |-> [d EXCEPT !.client.template = NoHtml],
               bs |-> [Log(b, <<"read template", "unlink template",
                                "store template">>
                              \o TransformEvents(options.transformTemplate,
                                                 "transform template"))
                       EXCEPT !.pc = "transformTemplate"],
               templateSource |-> d.client.template.data]
         ELSE [disk |-> d,
               bs |-> [Log(b, <<"read template">>)
                       EXCEPT !.pc = "failed", !.error = "read"],
               templateSource |-> templateSource]
    ELSE [disk |-> d, bs |-> [b EXCEPT !.pc = "done"],
          templateSource |-> templateSource]

\* lines 362-368: the template file is read, deleted and stored and the
\* template transform is called; or there is no template and buildStart ends
HarvestTemplate(d, b) ==
    IF HasTemplateFile(resolvedConfig) /\ d.client.template.exists
    THEN [disk |-> [d EXCEPT !.client.template = NoHtml],
          bs |-> [Log(b, <<"read template", "unlink template", "store template">>
                         \o TransformEvents(options.transformTemplate,
                                            "transform template"))
                  EXCEPT !.pc = "transformTemplate"],
          templateSource |-> d.client.template.data]
    ELSE [disk |-> d, bs |-> [b EXCEPT !.pc = "done"],
          templateSource |-> templateSource]

\* lines 335-354: after the sub-build, the manifest file is read, deleted,
\* parsed and stored and the manifest transform is called; without a
\* manifest file the template is harvested
Harvest ==
    /\ bs.pc = "harvest"
    /\ IF disk.client.manifest.exists
       THEN LET parsed == ParseManifest(disk.client.manifest.data)
                read == Log(bs, <<"read manifest", "unlink manifest">>)
            IN /\ disk' = [disk EXCEPT !.client.manifest = NoText]
               /\ UNCHANGED templateSource
               /\ IF parsed.ok
                  THEN /\ manifestSource' = parsed.val
                       /\ bs' = [Log(read, <<"store manifest">>
                                      \o TransformEvents(
                                            options.transformManifest,
                                            "transform manifest"))
                                 EXCEPT !.pc = "transformManifest"]
                  ELSE /\ bs' = [read EXCEPT !.pc = "failed", !.error = "parse"]
                       /\ UNCHANGED manifestSource
       ELSE LET h == HarvestTemplate(disk, bs)
            IN /\ disk' = h.disk
               /\ bs' = h.bs
               /\ templateSource' = h.templateSource
               /\ UNCHANGED manifestSource
    /\ UNCHANGED <<pluginInputs, generateSSRBuild, emptyOutDir, resolvedConfig,
                   hookConfig, imported, req>>

\* lines 114-123: the manifest transform settles and
\* applyManifestTransformation saves what it resolved to; buildStart, which
\* awaits it, resumes in a later step
ManifestTransformed ==
    /\ bs.pc = "transformManifest"
    /\ \/ /\ options.transformManifest
          /\ bs' = [bs EXCEPT !.pc = "failed", !.error = "transformManifest"]
          /\ UNCHANGED manifestSource
       \/ \E result \in (IF options.transformManifest
                         THEN TransformManifestResults(manifestSource)
                         ELSE {NoManifestResult}) :
            LET saved == SaveManifest(manifestSource, result)
                settled == [bs EXCEPT !.manifestResult = result]
            IN IF saved.ok
               THEN /\ manifestSource' = saved.val
                    /\ bs' = [settled EXCEPT !.pc = "writeManifest"]
               ELSE /\ bs' = [settled EXCEPT !.pc = "failed", !.error = "parse"]
                    /\ UNCHANGED manifestSource
    /\ UNCHANGED <<pluginInputs, generateSSRBuild, emptyOutDir, templateSource,
                   resolvedConfig, hookConfig, disk, imported, req>>

\* lines 356-368: buildStart resumes after the manifest transformation,
\* writes the manifest and harvests the template
WriteManifest ==
    /\ bs.pc = "writeManifest"
    /\ LET written == IF ShouldWrite(options)
                      THEN [disk EXCEPT !.finalManifest =
                               TextFile(StringifyManifest(manifestSource))]
                      ELSE disk
           h == HarvestTemplate(written,
                   Log(bs, IF ShouldWrite(options)
                           THEN <<"write manifest">> ELSE <<>>))
       IN /\ disk' = h.disk
          /\ bs' = h.bs
          /\ templateSource' = h.templateSource
    /\ UNCHANGED <<pluginInputs, generateSSRBuild, emptyOutDir, manifestSource,
                   resolvedConfig, hookConfig, imported, req>>

\* lines 127-132: the template transform settles and
\* applyTemplateTransformation saves what it resolved to; buildStart, which
\* awaits it, resumes in a later step
TemplateTransformed ==
    /\ bs.pc = "transformTemplate"
    /\ \/ /\ options.transformTemplate
          /\ bs' = [bs EXCEPT !.pc = "failed", !.error = "transformTemplate"]
          /\ UNCHANGED templateSource
       \/ \E result \in (IF options.transformTemplate
                         THEN TransformTemplateResults(templateSource)
                         ELSE {Undef}) :
            /\ templateSource' = SaveTemplate(templateSource, result)
            /\ bs' = [bs EXCEPT !.pc = "writeTemplate",
                                !.templateResult = result]
    /\ UNCHANGED <<pluginInputs, generateSSRBuild, emptyOutDir, manifestSource,
                   resolvedConfig, hookConfig, disk, imported, req>>

\* lines 370-374: buildStart resumes after the template transformation,
\* writes the template and ends
WriteTemplate ==
    /\ bs.pc = "writeTemplate"
    /\ disk' = IF ShouldWrite(options)
               THEN [disk EXCEPT !.finalTemplate = HtmlFile(templateSource)]
               ELSE disk
    /\ bs' = [Log(bs, IF ShouldWrite(options)
                      THEN <<"write template">> ELSE <<>>)
              EXCEPT !.pc = "done"]
    /\ UNCHANGED <<pluginInputs, generateSSRBuild, emptyOutDir, manifestSource,
                   templateSource, resolvedConfig, hookConfig, imported, req>>

\* the module names the bundler asks the plugin for
ModuleSources ==
    {DefaultManifestName, DefaultTemplateName, "my:manifest", "my:template",
     "./app.js"}

\* lines 201-221: after buildStart the bundler resolves an import through
\* resolveId and, when the plugin resolved it, loads it through load
LoadVirtualModule ==
    /\ bs.pc = "done"
    /\ \E source \in ModuleSources :
        LET id == ResolveId(options, source)
            module == Load(options, id.val, manifestSource, templateSource)
        IN imported' = IF id.type = "string"
                       THEN [source |-> source, resolved |-> TRUE,
                             loaded |-> module.loaded, code |-> module.code]
                       ELSE [source |-> source, resolved |-> FALSE,
                             loaded |-> FALSE, code |-> <<>>]
    /\ UNCHANGED <<pluginInputs, generateSSRBuild, emptyOutDir, manifestSource,
                   templateSource, resolvedConfig, hookConfig, disk, bs, req>>

\* the html documents the host hands to the transformIndexHtml hooks while
\* it generates the bundle
BundledHtmls == {"<html>B", ""}

\* lines 190-198: the host applies the plugins' transformIndexHtml hooks to
\* an html document of the bundle; the hook is enforced 'post' and runs once
\* the modules are loaded, whether or not the build was detected as an SSR
\* build
TransformBundledHtml ==
    /\ bs.pc = "done"
    /\ \E html \in BundledHtmls :
          templateSource' = TransformIndexHtmlHook(html)
    /\ bs' = [bs EXCEPT !.pc = "generated"]
    /\ UNCHANGED <<pluginInputs, generateSSRBuild, emptyOutDir, manifestSource,
                   resolvedConfig, hookConfig, disk, imported, req>>

\* lines 153-155, 180-182: after buildStart and the loads, the host writes
\* the SSR bundle of the build the plugin takes part in; as in buildStart
\* (lines 28-43 are the host's own prepareOutDir), it first prepares the
\* output directory, with the resolved build.emptyOutDir
HostWrite ==
    /\ bs.pc \in {"done", "generated"}
    /\ generateSSRBuild
    /\ LET outDir == PathResolve(resolvedConfig.root, resolvedConfig.outDir)
           prepare == IF resolvedConfig.write
                      THEN PrepareOutDirCase(disk, outDir,
                                             resolvedConfig.emptyOutDir,
                                             resolvedConfig)
                      ELSE "keep"
           prepared == IF prepare = "empty" THEN EmptyDir(disk) ELSE disk
           events == IF prepare = "keep" THEN <<>> ELSE <<"host " \o prepare>>
       IN /\ disk' = IF resolvedConfig.write
                     THEN [prepared EXCEPT !.exists = TRUE,
                                           !.entries = @ \cup {"server.js"}]
                     ELSE disk
          /\ bs' = [Log(bs, events \o <<"bundle">>) EXCEPT !.pc = "written"]
    /\ UNCHANGED <<pluginInputs, generateSSRBuild, emptyOutDir, manifestSource,
                   templateSource, resolvedConfig, hookConfig, imported, req>>

\* ------------------------------------------------------------------------
\* The dev server
\* ------------------------------------------------------------------------
NoBuildConfig == [kind |-> "undefined", cfg |-> EmptyConfig]

DevOptions(ssr, hooks) ==
    [ssr |-> ssr, transformTemplate |-> hooks, render |-> hooks,
     manifestId |-> Undef, templateId |-> Undef, writeManifest |-> Undef,
     transformManifest |-> hooks, buildConfig |-> NoBuildConfig]

DevConfig(ssr, input) == [root |-> Root, ssr |-> ssr, input |-> input]

\* the plugin options and host configurations the dev server is started with
DevSetups ==
    {[options |-> DevOptions(Undef, FALSE),
      config |-> DevConfig(JSTrue, Obj("inputs"))],
     [options |-> DevOptions(Str("entry.js"), TRUE),
      config |-> DevConfig(Undef, Undef)],
     [options |-> DevOptions(Undef, FALSE),
      config |-> DevConfig(Str("server.js"), Undef)],
     [options |-> DevOptions(Str("entry.js"), FALSE),
      config |-> DevConfig(Str("server.js"), Undef)]}

DevEnv == [mode |-> "development", command |-> "serve"]

Init ==
    /\ \E setup \in DevSetups :
          /\ options = setup.options
          /\ config = setup.config
    /\ env = DevEnv
    /\ generateSSRBuild = FALSE
    /\ emptyOutDir = Undef
    /\ manifestSource = <<>>
    /\ templateSource = ""
    /\ resolvedConfig = NoResolvedConfig
    /\ hookConfig = NoHookConfig
    /\ disk = NoDisk
    /\ bs = [NewBuild EXCEPT !.pc = "serving"]
    /\ imported = NoImport
    /\ req = [r \in Requests |-> NewRequest]

Next ==
    \E r \in Requests :
        \/ HandleRequest(r)
        \/ TransformIndexHtml(r)
        \/ StoreTemplate(r)
        \/ TransformTemplate(r)
        \/ TakeTemplate(r)
        \/ Render(r)
        \/ SendPage(r)

Spec == Init /\ [][Next]_vars

\* ------------------------------------------------------------------------
\* The build: the plugin's hooks in the order the host calls them
\* ------------------------------------------------------------------------
CustomBuildConfigs ==
    {NoBuildConfig,
     [kind |-> "false", cfg |-> EmptyConfig],
     [kind |-> "object",
      cfg |-> (KeyEntryFileNames :> Str("server_render.js"))],
     [kind |-> "object",
      cfg |-> (KeyPublicDir :> Str("static")) @@ (KeyEmptyOutDir :> JSTrue)
              @@ (KeyMinify :> JSFalse)
              @@ (KeyEntryFileNames :> Str("custom.js"))]}

BuildOptions ==
    {[ssr |-> Undef, render |-> FALSE,
      manifestId |-> ids[1], templateId |-> ids[2],
      transformManifest |-> ids[3], transformTemplate |-> ids[3],
      writeManifest |-> w, buildConfig |-> bc] :
        ids \in {<<Undef, Undef, FALSE>>,
                 <<Undef, Undef, TRUE>>,
                 <<Str("my:manifest"), Undef, TRUE>>,
                 <<Undef, Str("my:template"), TRUE>>,
                 <<Str("my:manifest"), Str("my:template"), FALSE>>},
        w \in {Undef, JSFalse},
        bc \in CustomBuildConfigs}

\* the user's output settings together with the state of the directory
OutputSetups ==
    {[outDir |-> Undef, write |-> Undef, disk |-> NoDisk],
     [outDir |-> Undef, write |-> Undef, disk |-> StaleDisk],
     [outDir |-> Str("/x/out"), write |-> Undef, disk |-> StaleDisk],
     [outDir |-> Undef, write |-> JSFalse, disk |-> StaleDisk]}

EntrySetups ==
    {[input |-> Undef, publicDir |-> Undef],
     [input |-> Str("main.js"), publicDir |-> Str("static")],
     [input |-> Obj("inputs"), publicDir |-> Undef]}

UserConfig(ssr, empty, out, entry) ==
    (KeySsr :> ssr) @@ (KeyEmptyOutDir :> empty) @@ (KeyOutDir :> out.outDir)
    @@ (KeyWrite :> out.write) @@ (KeyInput :> entry.input)
    @@ (KeyPublicDir :> entry.publicDir)

BuildEnvs ==
    {[mode |-> "production", command |-> "build"],
     [mode |-> "development", command |-> "build"],
     [mode |-> "production", command |-> "serve"]}

InitBuild ==
    /\ options \in BuildOptions
    /\ \E ssr \in {Undef, JSTrue, Str("server.js")},
          empty \in {Undef, JSTrue, JSFalse},
          out \in OutputSetups, entry \in EntrySetups :
            /\ config = UserConfig(ssr, empty, out, entry)
            /\ disk = out.disk
    /\ env \in BuildEnvs
    /\ generateSSRBuild = FALSE
    /\ emptyOutDir = Undef
    /\ manifestSource = <<>>
    /\ templateSource = ""
    /\ resolvedConfig = NoResolvedConfig
    /\ hookConfig = NoHookConfig
    /\ bs = NewBuild
    /\ imported = NoImport
    /\ req = [r \in Requests |-> NewRequest]

NextBuild ==
    \/ ConfigHook
    \/ ConfigResolved
    \/ BuildStart
    \/ SubBuild
    \/ Harvest
    \/ ManifestTransformed
    \/ WriteManifest
    \/ TemplateTransformed
    \/ WriteTemplate
    \/ LoadVirtualModule
    \/ TransformBundledHtml
    \/ HostWrite

SpecBuild == InitBuild /\ [][NextBuild]_vars

\* ------------------------------------------------------------------------
\* The plugin in either use: it serves in development or it runs a build
\* ------------------------------------------------------------------------
InitPlugin == Init \/ InitBuild

NextPlugin ==
    \/ bs.pc = "serving" /\ Next
    \/ bs.pc # "serving" /\ NextBuild

SpecPlugin == InitPlugin /\ [][NextPlugin]_vars

\* ------------------------------------------------------------------------
\* Properties of the dev middleware
\* ------------------------------------------------------------------------
Started(r) == req[r].pc # "idle"
Done(r) == req[r].pc = "done"

\* the request's stripped path
PathOf(r) == StripUrl(req[r].url)

\* the steps of the handler that run inside its try block
TrySteps == {"read", "html", "hook", "load", "render", "send"}

\* a request that reached the render step and met no exception is answered
C1_Answered ==
    \A r \in Requests :
        (Done(r) /\ req[r].calls["render"] = 1 /\ req[r].threw = "none")
            => req[r].sent

\* the body of the response that a step sends
C1_Body ==
    \A r \in Requests :
        (~req[r].sent /\ req'[r].sent) =>
            /\ req[r].pc = "render"
            /\ req'[r].body = IF req'[r].rendered.type = "string"
                              THEN req'[r].rendered.val
                              ELSE req[r].renderArg

\* C1: a request that reached the render step and met no exception is
\* answered, and the body sent is the value the render function returned when
\* that is a string, and otherwise the template the request passed to it.
C1_BodyIsRenderResultOrTemplate == [](C1_Answered) /\ [][C1_Body]_vars

C1_Witness ==
    \E r, q \in Requests :
        /\ req[r].sent /\ req[r].rendered.type = "string"
        /\ req[r].body = req[r].rendered.val
        /\ req[q].sent /\ req[q].rendered = Undef
        /\ req[q].body \in {HostTransformIndexHtml("A"),
                            HostTransformIndexHtml("B")}

\* C2: the template a request passes to its render function, and holds as
\* the body to send when the render function returns no string, is the one
\* derived from its own file read, host transform and template transform.
C2_TemplateIsOwn ==
    \A r \in Requests :
        req[r].pc = "render" =>
            /\ req[r].renderArg = req[r].own
            /\ req[r].template = req[r].own

\* C3: a finished invocation has either called next exactly once or sent a
\* response, never both and never neither.
C3_NextXorSent ==
    \A r \in Requests :
        Done(r) => \/ (req[r].nextCalls = 1 /\ ~req[r].sent)
                   \/ (req[r].nextCalls = 0 /\ req[r].sent)

\* the outcome of a request whose try block threw, and of one that met no
\* exception
C4_ErrorInv ==
    \A r \in Requests :
        /\ req[r].threw \in TrySteps =>
              /\ Done(r)
              /\ req[r].nextCalls = 1
              /\ req[r].nextErr = req[r].threw
              /\ ~req[r].sent
        /\ (Done(r) /\ req[r].threw = "none") =>
              /\ req[r].nextErr = "none"
              /\ \/ (req[r].sent /\ req[r].nextCalls = 0
                                 /\ req[r].calls["render"] = 1)
                 \/ (~req[r].sent /\ req[r].nextCalls = 1
                                  /\ req[r].calls["html"] = 0)

C4_ErrorFrame ==
    \A r \in Requests :
        (req[r].threw = "none" /\ req'[r].threw \in TrySteps) =>
            /\ \A q \in Requests \ {r} : req'[q] = req[q]
            /\ UNCHANGED <<manifestSource, templateSource>>

\* C4: when a step inside the try block throws, next is called exactly once
\* with that error and no response is sent; the throwing step changes no
\* other request, and every request that met no exception ends as the
\* decision sequence says: answered after one render call, or passed on
\* without error before any transform.
C4_ErrorsGoToNext == [](C4_ErrorInv) /\ [][C4_ErrorFrame]_vars

C4_Witness ==
    \E r, q \in Requests :
        /\ req[r].threw = "hook" /\ req[r].nextCalls = 1
        /\ req[r].nextErr = "hook"
        /\ req[q].sent /\ req[q].threw = "none"

\* the requested urls whose stripped path ends in '.html'
HtmlUrls ==
    {url \in {input.url : input \in RequestInputs} :
        EndsWith(StripUrl(url), DotHtml)}

\* C5: a request whose response is already ended, or for which no ssr entry
\* is resolved, or whose stripped path does not end in .html, or whose
\* sec-fetch-dest is script, is passed to next without error and without any
\* file access, transform, module load, render call or store write.
C5_PassThrough ==
    \A r \in Requests :
        (/\ Started(r)
         /\ \/ req[r].ended
            \/ ~Truthy(SsrModule)
            \/ req[r].url \notin HtmlUrls
            \/ req[r].dest = "script")
        => /\ Done(r)
           /\ req[r].nextCalls = 1
           /\ req[r].nextErr = "none"
           /\ req[r].threw = "none"
           /\ ~req[r].sent
           /\ \A e \in Effects : req[r].calls[e] = 0

C5_Witness ==
    /\ Truthy(SsrModule)
    /\ \E r, q \in Requests :
        /\ Done(r) /\ req[r].dest = "script" /\ ~req[r].ended
        /\ EndsWith(PathOf(r), DotHtml) /\ req[r].nextCalls = 1
        /\ Done(q) /\ req[q].url = UrlScript /\ req[q].nextCalls = 1

\* the file a url resolves to under the project root
FileOf(url) == DecodeURIComponent(PathJoin(Root, Slice1(StripUrl(url))))

\* the requested urls that resolve to a file the project does not have
MissingUrls ==
    {url \in {input.url : input \in RequestInputs} :
        FileOf(url).ok /\ FileOf(url).val \notin ProjectFiles}

Intercepted(r) ==
    /\ Started(r)
    /\ ~req[r].ended
    /\ req[r].dest # "script"
    /\ Truthy(SsrModule)
    /\ req[r].url \in HtmlUrls

\* the outcome of a request for a missing document
C6_MissingInv ==
    \A r \in Requests :
        (req[r].url \in MissingUrls /\ config.root = Root /\ Intercepted(r))
        => /\ Done(r)
           /\ req[r].nextCalls = 1
           /\ req[r].nextErr = "none"
           /\ ~req[r].sent
           /\ \A e \in Effects \ {"exists"} : req[r].calls[e] = 0

C6_MissingFrame ==
    \A r \in Requests :
        (/\ ~Started(r)
         /\ req'[r].pc = "done"
         /\ req'[r].calls["exists"] = 1
         /\ req'[r].calls["read"] = 0)
        => UNCHANGED <<manifestSource, templateSource>>

\* C6: a request for an .html path whose file does not exist is passed to
\* next without error, calls no html transform, template transform or render
\* function, and its step leaves the stored template and manifest unchanged.
C6_MissingFilePassesThrough == [](C6_MissingInv) /\ [][C6_MissingFrame]_vars

C6_Witness ==
    /\ templateSource # ""
    /\ \E r \in Requests :
        /\ Done(r) /\ req[r].url = UrlMissing /\ req[r].calls["exists"] = 1
        /\ req[r].nextCalls = 1

\* ------------------------------------------------------------------------
\* Properties of the virtual modules and of the build
\* ------------------------------------------------------------------------
Asked == imported.source # ""

\* the names the options configure
ConfiguredManifestName ==
    IF options.manifestId.type = "string"
    THEN options.manifestId.val ELSE DefaultManifestName

ConfiguredTemplateName ==
    IF options.templateId.type = "string"
    THEN options.templateId.val ELSE DefaultTemplateName

ManifestModule == <<ExportDefault>> \o StringifyManifest(manifestSource)
TemplateModule == <<ExportDefault>> \o StringLiteral(templateSource)

\* C7: for every setting of manifestId and templateId, importing the
\* configured manifest name loads the serialized manifest, importing the
\* configured template name loads the serialized template, and any other
\* name is left unresolved.
C7_VirtualModuleNames ==
    Asked =>
        IF imported.source = ConfiguredManifestName
        THEN imported.resolved /\ imported.loaded /\ imported.code = ManifestModule
        ELSE IF imported.source = ConfiguredTemplateName
        THEN imported.resolved /\ imported.loaded /\ imported.code = TemplateModule
        ELSE ~imported.resolved

InLog(event) == \E i \in 1..Len(bs.log) : bs.log[i] = event

\* what the stored manifest can be after the harvest of the client manifest
HarvestedManifests ==
    IF options.transformManifest
    THEN {ClientManifest, HookManifest,
          <<[key |-> "1", assets |-> <<>>]>> \o ClientManifest
              \o <<[key |-> "extra.js", assets |-> <<>>]>>}
    ELSE {ClientManifest}

\* what the stored template can be after the harvest of the client template
HarvestedTemplates ==
    IF options.transformTemplate
    THEN {ClientTemplate, "T(" \o ClientTemplate \o ")"}
    ELSE {ClientTemplate}

\* an SSR build with writeManifest: false writes neither file to the output
\* directory
C8_FilesNotWritten ==
    /\ ~InLog("write manifest") /\ ~InLog("write template")
    /\ ~disk.finalTemplate.exists
    /\ disk.finalManifest \in {NoText, StaleDisk.finalManifest}

\* once buildStart is done the store holds what was harvested and transformed
C8_StoreKept ==
    /\ InLog("store manifest") => manifestSource \in HarvestedManifests
    /\ InLog("store template") => templateSource \in HarvestedTemplates

\* the module the bundler imports under the configured manifest name is the
\* stored manifest
C8_ManifestLoaded ==
    imported.source = ConfiguredManifestName =>
        imported.loaded /\ imported.code = ManifestModule

\* the module the bundler imports under the configured template name is the
\* stored template
C8_TemplateLoaded ==
    imported.source = ConfiguredTemplateName =>
        imported.loaded /\ imported.code = TemplateModule

\* C8: an SSR build with writeManifest: false writes neither the manifest
\* nor the template to the output directory, while the store holds what was
\* harvested and transformed and the virtual modules, imported under their
\* configured names, serve the stored manifest and the stored template.
C8_NoFilesWritten ==
    (generateSSRBuild /\ options.writeManifest = JSFalse) =>
        /\ C8_FilesNotWritten
        /\ bs.pc = "done" =>
              C8_StoreKept /\ C8_ManifestLoaded /\ C8_TemplateLoaded

\* the configurations in which the build orchestrator is to be active
SsrBuildRequested ==
    /\ options.buildConfig.kind # "false"
    /\ env.mode = "production"
    /\ env.command = "build"
    /\ Get(config, KeySsr).type = "string"

\* the build flags and effects in an active and in an inert run
C9_ActiveInv ==
    bs.pc # "config" =>
        /\ generateSSRBuild = SsrBuildRequested
        /\ hookConfig.returned = SsrBuildRequested
        /\ (SsrBuildRequested /\ bs.pc # "configResolved" /\ bs.pc # "buildStart")
              => InLog("build") /\ bs.subBuild.ssr = JSFalse
        /\ ~SsrBuildRequested =>
              /\ bs.log = <<>>
              /\ bs.subBuild = NewBuild.subBuild
              /\ bs.pc \in {"configResolved", "buildStart", "done",
                            "generated"}
              /\ manifestSource = <<>>
              /\ bs.pc # "generated" => templateSource = ""

\* in an inert run no step touches a file or the manifest, and no step up to
\* the end of buildStart touches the template
C9_InertFrame ==
    ~SsrBuildRequested =>
        /\ UNCHANGED <<disk, manifestSource>>
        /\ bs.pc # "done" => UNCHANGED templateSource

\* C9: the orchestrator is active exactly when buildConfig is not false, the
\* mode is production, the command is build and build.ssr is a string: then
\* the config hook returns a configuration and buildStart invokes the client
\* sub-build; otherwise the config hook returns nothing and buildStart
\* invokes nothing, touches no file and leaves the store alone.
C9_ActiveIffSsrBuild == [](C9_ActiveInv) /\ [][C9_InertFrame]_vars

C9_Witness ==
    /\ SsrBuildRequested /\ bs.pc = "done"
    /\ InLog("empty") /\ InLog("build") /\ InLog("store manifest")

\* C10: the configuration the config hook returns for an SSR build has
\* publicDir false and build.emptyOutDir false whatever buildConfig sets, and
\* every other key buildConfig sets keeps the value buildConfig gives it,
\* entryFileNames falling back to '[name].js'.
C10_ForcedSettingsWin ==
    hookConfig.returned =>
        /\ Get(hookConfig.cfg, KeyPublicDir) = JSFalse
        /\ Get(hookConfig.cfg, KeyEmptyOutDir) = JSFalse
        /\ Get(hookConfig.cfg, KeyEntryFileNames) =
              IF Get(BuildConfigOf(options), KeyEntryFileNames).type = "undefined"
              THEN Str("[name].js")
              ELSE Get(BuildConfigOf(options), KeyEntryFileNames)
        /\ \A k \in DOMAIN BuildConfigOf(options)
                    \ {KeyPublicDir, KeyEmptyOutDir} :
              Get(hookConfig.cfg, k) = BuildConfigOf(options)[k]

C10_Witness ==
    /\ hookConfig.returned
    /\ Get(BuildConfigOf(options), KeyPublicDir) = Str("static")
    /\ Get(BuildConfigOf(options), KeyEmptyOutDir) = JSTrue
    /\ Get(BuildConfigOf(options), KeyEntryFileNames) = Str("custom.js")
    /\ Get(hookConfig.cfg, KeyPublicDir) = JSFalse
    /\ Get(hookConfig.cfg, KeyEntryFileNames) = Str("custom.js")

\* ------------------------------------------------------------------------
\* Properties of the output directory
\* ------------------------------------------------------------------------
\* the user's emptyOutDir preference
Preference == Get(config, KeyEmptyOutDir)

\* the resolved output directory lies outside the project root
OutDirOutsideRoot ==
    ~InsideRoot(PathResolve(resolvedConfig.root, resolvedConfig.outDir),
                resolvedConfig.root)

\* buildStart of an SSR build runs and finds the output directory
BuildStartFinds(exists) ==
    /\ bs.pc = "buildStart" /\ bs'.pc # "buildStart"
    /\ generateSSRBuild
    /\ disk.exists = exists

\* C11 as stated: for every emptyOutDir preference, buildStart leaves an
\* existing output directory outside the project root untouched, logs a
\* warning and goes on to the client sub-build.
C11_OutsideNeverCleared ==
    [][(BuildStartFinds(TRUE) /\ resolvedConfig.write /\ OutDirOutsideRoot)
          => /\ disk' = disk
             /\ bs'.log = <<"warn", "build">>
             /\ bs'.pc = "build"]_vars

\* C11: with writing enabled, an existing output directory outside the
\* project root is left untouched with a warning when emptyOutDir is
\* unspecified, left untouched without a warning when it is false, and
\* cleared except for .git when it is true; the build proceeds in each case.
C11_OutsideClearedOnlyOnRequest ==
    [][(BuildStartFinds(TRUE) /\ resolvedConfig.write /\ OutDirOutsideRoot)
          => /\ bs'.pc = "build"
             /\ Preference = Undef =>
                   disk' = disk /\ bs'.log = <<"warn", "build">>
             /\ Preference = JSFalse =>
                   disk' = disk /\ bs'.log = <<"build">>
             /\ Preference = JSTrue =>
                   /\ disk'.entries = disk.entries \cap {".git"}
                   /\ ~disk'.finalManifest.exists
                   /\ bs'.log = <<"empty", "build">>]_vars

C11_Witness ==
    /\ bs.pc = "build" /\ generateSSRBuild
    /\ resolvedConfig.write /\ OutDirOutsideRoot
    /\ Preference = Undef
    /\ bs.log = <<"warn", "build">>
    /\ disk = StaleDisk

\* ------------------------------------------------------------------------
\* Properties of the harvest
\* ------------------------------------------------------------------------
ManifestEvents ==
    {"read manifest", "unlink manifest", "store manifest",
     "transform manifest", "write manifest"}

TemplateEvents ==
    {"read template", "unlink template", "store template",
     "transform template", "write template"}

\* how often the event is in the build's log
Occurrences(event) == Cardinality({i \in 1..Len(bs.log) : bs.log[i] = event})

\* C12: when the client sub-build throws, buildStart fails with that error,
\* the sub-build has run once, no manifest or template file is read, deleted
\* or written, no transform hook is called, and the stored manifest and
\* template are the ones the plugin was created with.
C12_SubBuildFailureAborts ==
    bs.error = "build" =>
        /\ bs.pc = "failed"
        /\ Occurrences("build") = 1
        /\ \A e \in ManifestEvents \cup TemplateEvents \cup {"built"} : ~InLog(e)
        /\ manifestSource = <<>> /\ templateSource = ""
        /\ disk.client = NoClient
        /\ ~disk.finalTemplate.exists
        /\ disk.finalManifest \in {NoText, StaleDisk.finalManifest}
        /\ ~Asked

C12_Witness ==
    /\ bs.error = "build" /\ bs.pc = "failed"
    /\ options.transformManifest /\ options.transformTemplate
    /\ ShouldWrite(options)
    /\ HasTemplateFile(resolvedConfig)
    /\ bs.log = <<"empty", "build">>

LogHas(log, event) == \E i \in 1..Len(log) : log[i] = event

\* the build entry is a single string ending in '.html'
EntryIsHtml ==
    \/ ~Truthy(resolvedConfig.input)
    \/ /\ resolvedConfig.input.type = "string"
       /\ resolvedConfig.input.val \in HtmlNames

\* the client sub-build left a template the harvest takes
TemplatePresent == EntryIsHtml /\ disk.client.template.exists

\* the harvest steps that find an artifact missing
C13_SkipFrame ==
    /\ (bs.pc = "harvest" /\ bs'.pc # "harvest"
           /\ ~disk.client.manifest.exists) =>
          /\ manifestSource' = manifestSource
          /\ disk'.finalManifest = disk.finalManifest
          /\ \A e \in ManifestEvents : ~LogHas(bs'.log, e)
          /\ IF TemplatePresent
             THEN /\ bs'.pc = "transformTemplate"
                  /\ templateSource' = disk.client.template.data
                  /\ ~disk'.client.template.exists
                  /\ LogHas(bs'.log, "store template")
             ELSE bs'.pc = "done"
    /\ (bs.pc \in {"harvest", "transformManifest", "writeManifest"}
           /\ bs'.pc # bs.pc /\ ~TemplatePresent) =>
          /\ templateSource' = templateSource
          /\ disk'.finalTemplate = disk.finalTemplate
          /\ disk'.client.template = disk.client.template
          /\ \A e \in TemplateEvents : ~LogHas(bs'.log, e)
          /\ bs'.error \in {"none", "transformManifest", "parse"}
          /\ bs'.error = "none" =>
                bs'.pc = IF bs.pc = "harvest" /\ disk.client.manifest.exists
                         THEN "transformManifest"
                         ELSE IF bs.pc = "transformManifest"
                         THEN "writeManifest" ELSE "done"

\* a finished build: a skipped artifact left no trace, the other one was
\* stored and, unless writeManifest is false, written
C13_SkipInv ==
    (bs.pc = "done" /\ InLog("built")) =>
        /\ ~InLog("read manifest") =>
              /\ manifestSource = <<>>
              /\ \A e \in ManifestEvents : ~InLog(e)
              /\ disk.finalManifest \in {NoText, StaleDisk.finalManifest}
        /\ ~InLog("read template") =>
              /\ templateSource = ""
              /\ \A e \in TemplateEvents : ~InLog(e)
              /\ ~disk.finalTemplate.exists
        /\ InLog("read manifest") =>
              /\ InLog("store manifest")
              /\ InLog("transform manifest") = options.transformManifest
              /\ InLog("write manifest") = (options.writeManifest # JSFalse)
        /\ InLog("read template") =>
              /\ InLog("store template")
              /\ InLog("transform template") = options.transformTemplate
              /\ InLog("write template") = (options.writeManifest # JSFalse)

\* C13: after a successful sub-build, a missing manifest file, a missing
\* template file or an entry that is not a single '.html' string makes the
\* harvest skip that artifact without error: its stored value stays, its
\* transform is not called and no file is written for it, while the other
\* artifact is harvested and buildStart completes.
C13_MissingArtifactSkipped == [](C13_SkipInv) /\ [][C13_SkipFrame]_vars

C13_Witness ==
    /\ bs.pc = "done" /\ InLog("built")
    /\ options.transformManifest /\ options.transformTemplate
    /\ ~InLog("read manifest") /\ manifestSource = <<>>
    /\ InLog("write template") /\ templateSource = "T(" \o ClientTemplate \o ")"

\* ------------------------------------------------------------------------
\* Properties of the transform hooks
\* ------------------------------------------------------------------------
\* the manifest transform returned an object or a string that parses to a
\* JSON object
ExpectedManifestResult(result) ==
    \/ result.type = "object"
    \/ /\ result.type = "string"
       /\ JsonParse(result.text).ok
       /\ JsonParse(result.text).val.type = "object"

\* the manifest an expected result stands for
ManifestOf(result) ==
    IF result.type = "object" THEN result.manifest
    ELSE JsonParse(result.text).val.manifest

\* the step in which the manifest transform resolves
C14_ManifestStep ==
    (bs.pc = "transformManifest" /\ bs'.pc # "transformManifest"
        /\ bs'.error # "transformManifest") =>
       IF ExpectedManifestResult(bs'.manifestResult)
       THEN bs'.error = "none" /\ manifestSource' = ManifestOf(bs'.manifestResult)
       ELSE bs'.error = "none" /\ manifestSource' = manifestSource

\* the step in which the template transform resolves
C14_TemplateStep ==
    (bs.pc = "transformTemplate" /\ bs'.pc # "transformTemplate"
        /\ bs'.error # "transformTemplate") =>
       /\ bs'.error = "none"
       /\ templateSource' = IF bs'.templateResult.type = "string"
                            THEN bs'.templateResult.val ELSE templateSource

\* C14: a transform hook that returns a value of an unexpected kind raises
\* no error and leaves the stored value unchanged (for the manifest: nothing,
\* a number, a boolean, an unparsable string, a string parsing to a
\* non-object; for the template: any non-string); an object or a string
\* parsing to an object replaces the manifest, a string replaces the template.
C14_UnexpectedReturnIgnored == [][C14_ManifestStep /\ C14_TemplateStep]_vars

\* ------------------------------------------------------------------------
\* Properties of the manifest in development
\* ------------------------------------------------------------------------
\* C15: in development, whatever requests have run, the stored manifest is
\* the empty mapping it was created with, and every RenderContext handed to
\* options.render carries that empty mapping as its manifest.
C15_DevManifestEmpty ==
    /\ manifestSource = <<>>
    /\ \A r \in Requests :
          /\ req[r].context.passed =>
                req[r].context.manifest = ManifestValue("object", <<>>, <<>>)
          /\ (options.render /\ req[r].calls["render"] = 1) =>
                req[r].context.passed

C15_Witness ==
    /\ manifestSource = <<>> /\ templateSource # ""
    /\ options.render
    /\ \A r \in Requests : Done(r) /\ req[r].sent /\ req[r].context.passed

\* ------------------------------------------------------------------------
\* Properties of the calls of the transform hooks
\* ------------------------------------------------------------------------
Calls(configured) == IF configured THEN 1 ELSE 0

\* a build calls each configured transform once for the artifact it harvests
C16_Build ==
    /\ Occurrences("transform manifest") =
          Calls(options.transformManifest /\ InLog("store manifest"))
    /\ Occurrences("transform template") =
          Calls(options.transformTemplate /\ InLog("store template"))
    /\ Occurrences("store manifest") <= 1
    /\ Occurrences("store template") <= 1

\* a development request that reached the render step called the template
\* transform once
C16_DevTemplate ==
    \A r \in Requests :
        req[r].calls["render"] = 1 =>
            req[r].calls["hook"] = Calls(options.transformTemplate)

\* C16 as stated: each configured transform, the manifest transform as well
\* as the template transform, is called once when a build harvests its
\* artifact and once for every development request that reaches the render
\* step.
C16_BothHooksOncePerRequest ==
    /\ C16_Build
    /\ C16_DevTemplate
    /\ \A r \in Requests :
          req[r].calls["render"] = 1 =>
              req[r].calls["manifestHook"] = Calls(options.transformManifest)

\* C16: each configured transform is called once when a build harvests its
\* artifact; in development the template transform is called once for every
\* request that reaches the render step and the manifest transform is not
\* called at all.
C16_HooksOnce ==
    /\ C16_Build
    /\ C16_DevTemplate
    /\ \A r \in Requests : req[r].calls["manifestHook"] = 0

C16_Witness ==
    /\ options.transformManifest /\ options.transformTemplate
    /\ bs.pc = "serving"
    /\ \A r \in Requests :
          /\ Done(r) /\ req[r].sent
          /\ req[r].calls["hook"] = 1 /\ req[r].calls["manifestHook"] = 0

\* ------------------------------------------------------------------------
\* Properties of the entry module in development
\* ------------------------------------------------------------------------
\* the entry a value of build.ssr or of the plugin option stands for
EntryOf(ssr) == IF ssr = JSTrue THEN config.input ELSE ssr

\* C17: when the host configuration sets build.ssr, the module the dev
\* middleware loads is the one build.ssr determines, whatever the plugin
\* option ssr is; the plugin option supplies the entry only when build.ssr
\* is not set.
C17_BuildSsrWins ==
    \A r \in Requests :
        req[r].calls["load"] = 1 =>
            req[r].module = IF config.ssr # Undef
                            THEN EntryOf(config.ssr) ELSE EntryOf(options.ssr)

\* ------------------------------------------------------------------------
\* Properties of the client sub-build
\* ------------------------------------------------------------------------
\* the name the user's publicDir gives the client directory
ClientDirName ==
    IF Get(config, KeyPublicDir).type = "string"
    THEN Basename(PathResolve(BuildRoot, Get(config, KeyPublicDir).val))
    ELSE "www"

\* C18: the client sub-build is called with ssr off, ssrManifest on and, as
\* output directory, the subdirectory of the SSR output directory named after
\* the basename of the user's publicDir, or 'www' when the user configured
\* no publicDir.
C18_ClientOutDir ==
    InLog("build") =>
        /\ bs.subBuild.ssr = JSFalse
        /\ bs.subBuild.ssrManifest = JSTrue
        /\ bs.subBuild.outDir =
              PathResolve(resolvedConfig.root, resolvedConfig.outDir)
                 \o <<ClientDirName>>

\* ------------------------------------------------------------------------
\* Properties of the order of the build
\* ------------------------------------------------------------------------
\* the phase an effect of the build belongs to
PhaseOf(event) ==
    CASE event \in {"empty", "warn"} -> 1
      [] event \in {"build", "built"} -> 2
      [] event \in ManifestEvents -> 3
      [] event \in TemplateEvents -> 4
      [] OTHER -> 5

\* the effects so far are in the order of the phases, the sub-build has
\* returned before anything is harvested, modules are loaded after the
\* harvest, and the client's files are there when the bundle is written
C19_OrderInv ==
    /\ \A i \in 1..(Len(bs.log) - 1) :
          PhaseOf(bs.log[i]) <= PhaseOf(bs.log[i + 1])
    /\ \A e \in {"empty", "warn", "build", "built", "bundle"} :
          Occurrences(e) <= 1
    /\ InLog("built") => bs.log[Len(bs.log)] # "build"
    /\ \A e \in ManifestEvents \cup TemplateEvents : InLog(e) => InLog("built")
    /\ ~InLog("host empty")
    /\ Asked => bs.pc \in {"done", "generated", "written"}
    /\ bs.pc \in {"harvest", "transformManifest", "writeManifest",
                  "transformTemplate", "writeTemplate"}
          => ~InLog("bundle")
    /\ (generateSSRBuild /\ bs.pc \in {"done", "generated", "written"}) =>
          /\ disk.exists /\ disk.client.built

\* once the sub-build has started nothing is removed from the output
\* directory, and modules are loaded only between the harvest and the write
C19_OrderFrame ==
    /\ InLog("build") =>
          /\ disk.entries \subseteq disk'.entries
          /\ disk.client.built => disk'.client.built
          /\ disk.finalManifest.exists => disk'.finalManifest.exists
          /\ disk.finalTemplate.exists => disk'.finalTemplate.exists
    /\ imported' # imported => bs.pc = "done" /\ bs'.pc = "done"

\* C19: in an SSR build the output directory is cleared first (if at all),
\* then the client sub-build runs, then the manifest and after it the
\* template are harvested, then the host loads the virtual modules and
\* writes the bundle; each phase starts after the one before it finished,
\* and nothing is cleared once the sub-build has started, so that the
\* client's files are present when the build is done.
C19_PhasesInOrder == [](C19_OrderInv) /\ [][C19_OrderFrame]_vars

C19_Witness ==
    /\ bs.pc = "written" /\ Preference = JSTrue
    /\ bs.log = <<"empty", "build", "built",
                  "read manifest", "unlink manifest", "store manifest",
                  "transform manifest", "write manifest",
                  "read template", "unlink template", "store template",
                  "transform template", "write template", "bundle">>
    /\ imported.loaded
    /\ disk.client.built /\ disk.entries = {".git", "server.js"}

\* ------------------------------------------------------------------------
\* Properties of the clearing decision
\* ------------------------------------------------------------------------
\* the user disabled writing to disk
WriteDisabled == Get(config, KeyWrite) = JSFalse

\* what was in the output directory stays there
Kept ==
    /\ disk.entries \subseteq disk'.entries
    /\ disk.finalManifest.exists => disk'.finalManifest.exists
    /\ disk.finalTemplate.exists => disk'.finalTemplate.exists

\* the preference is captured and the resolved setting is forced off
C20_CapturedInv ==
    (generateSSRBuild /\ bs.pc \notin {"config", "configResolved"}) =>
        /\ emptyOutDir = Preference
        /\ resolvedConfig.emptyOutDir = JSFalse
        /\ (Preference = JSFalse \/ WriteDisabled) => ~InLog("empty")

\* the steps of an SSR build and what they delete
C20_ClearFrame ==
    generateSSRBuild =>
        /\ (Preference = JSFalse \/ WriteDisabled) => Kept
        /\ ".git" \in disk.entries => ".git" \in disk'.entries
        /\ (BuildStartFinds(TRUE) /\ ~WriteDisabled
              /\ (Preference = JSTrue
                    \/ (Preference = Undef /\ ~OutDirOutsideRoot))) =>
              /\ disk'.entries = disk.entries \cap {".git"}
              /\ LogHas(bs'.log, "empty")

\* C20: buildStart decides on clearing with the user's emptyOutDir as it
\* was before the config hook forced the setting off: with emptyOutDir false
\* or build.write false nothing is deleted from the output directory, inside
\* or outside the project root, and a clearing never removes a top-level
\* .git entry.
C20_ClearingUsesPreference == [](C20_CapturedInv) /\ [][C20_ClearFrame]_vars

C20_Witness ==
    /\ bs.pc = "build" /\ generateSSRBuild
    /\ Preference = JSTrue /\ resolvedConfig.emptyOutDir = JSFalse
    /\ ~OutDirOutsideRoot
    /\ bs.log = <<"empty", "build">>
    /\ disk.entries = {".git"} /\ ~disk.finalManifest.exists

\* ------------------------------------------------------------------------
\* Properties of the relocation of the harvested files
\* ------------------------------------------------------------------------
IsManifestEvent(event) == event \in ManifestEvents
IsTemplateEvent(event) == event \in TemplateEvents

IsPrefix(s, t) == Len(s) <= Len(t) /\ SubSeq(t, 1, Len(s)) = s

\* the steps of one artifact, in the order read, delete, store, transform,
\* write; the transform only when configured, the write unless disabled
StepsOf(name, transformed) ==
    <<"read " \o name, "unlink " \o name, "store " \o name>>
    \o (IF transformed THEN <<"transform " \o name>> ELSE <<>>)
    \o (IF options.writeManifest # JSFalse THEN <<"write " \o name>> ELSE <<>>)

\* the steps taken so far follow that order, a finished build has taken
\* all of them for what it read, and its client directory holds neither file
C21_RelocatedInv ==
    LET manifestSteps == SelectSeq(bs.log, IsManifestEvent)
        templateSteps == SelectSeq(bs.log, IsTemplateEvent)
        allManifest == StepsOf("manifest", options.transformManifest)
        allTemplate == StepsOf("template", options.transformTemplate)
    IN /\ IsPrefix(manifestSteps, allManifest)
       /\ IsPrefix(templateSteps, allTemplate)
       /\ InLog("read manifest") => InLog("unlink manifest")
       /\ InLog("read template") => InLog("unlink template")
       /\ (bs.pc \in {"done", "generated", "written"} /\ InLog("built")) =>
             /\ ~disk.client.manifest.exists
             /\ ~disk.client.template.exists
             /\ manifestSteps \in {<<>>, allManifest}
             /\ templateSteps \in {<<>>, allTemplate}

\* a file is written to the output directory by the step that follows the
\* one in which its transform has settled, with what is stored then, and a
\* file that was read is deleted by the step that reads it
C21_RelocatedFrame ==
    /\ (~InLog("write manifest") /\ LogHas(bs'.log, "write manifest")) =>
          /\ bs.pc = "writeManifest"
          /\ manifestSource' = manifestSource
          /\ disk'.finalManifest = TextFile(StringifyManifest(manifestSource))
    /\ (~InLog("write template") /\ LogHas(bs'.log, "write template")) =>
          /\ bs.pc = "writeTemplate"
          /\ templateSource' = templateSource
          /\ disk'.finalTemplate = HtmlFile(templateSource)
    /\ bs'.pc = "writeManifest" => bs.pc \in {"transformManifest", "writeManifest"}
    /\ bs'.pc = "writeTemplate" => bs.pc \in {"transformTemplate", "writeTemplate"}
    /\ (~InLog("read manifest") /\ LogHas(bs'.log, "read manifest")) =>
          disk.client.manifest.exists /\ ~disk'.client.manifest.exists
    /\ (~InLog("read template") /\ LogHas(bs'.log, "read template")) =>
          disk.client.template.exists /\ ~disk'.client.template.exists

\* C21: for the manifest and for the template the steps are read, delete
\* from the client directory, store, transform, write, in that order; after
\* a successful buildStart neither file is left in the client directory,
\* whatever writeManifest is, and a file is written to the output directory
\* only after its transform has run.
C21_Relocated == [](C21_RelocatedInv) /\ [][C21_RelocatedFrame]_vars

C21_Witness ==
    /\ bs.pc = "done" /\ options.writeManifest = JSFalse
    /\ options.transformManifest /\ options.transformTemplate
    /\ InLog("unlink manifest") /\ InLog("unlink template")
    /\ InLog("transform manifest") /\ InLog("transform template")
    /\ disk.client.built
    /\ ~disk.client.manifest.exists /\ ~disk.client.template.exists

\* ------------------------------------------------------------------------
\* Properties of the three views of an artifact
\* ------------------------------------------------------------------------
\* a build that succeeded with the writing of the files enabled, while the
\* bundler loads the modules
BuiltAndWritten ==
    /\ generateSSRBuild /\ bs.pc = "done"
    /\ options.writeManifest # JSFalse

\* the default export of the loaded module's code, as a JSON text
ExportedText == Tail(imported.code)

\* the store and the files of the output directory agree
C22_FilesAgree ==
    /\ InLog("write manifest") =>
          /\ disk.finalManifest.exists
          /\ ParseManifest(disk.finalManifest.data) =
                [ok |-> TRUE, val |-> manifestSource]
    /\ InLog("write template") =>
          disk.finalTemplate = HtmlFile(templateSource)

\* the module loaded under the manifest name deserializes to the store's
\* manifest
C22_ManifestModuleAgrees ==
    imported.source = ConfiguredManifestName =>
        /\ imported.loaded
        /\ imported.code[1] = ExportDefault
        /\ ParseManifest(ExportedText) = [ok |-> TRUE, val |-> manifestSource]

\* the string a module's code exports
ExportedString ==
    IF imported.code[1] = ExportDefault /\ Len(ExportedText) = 3
    THEN ParseString(ExportedText, 1) ELSE ParseFail

\* C22: after a successful build with writing enabled, the module served
\* under the manifest name deserializes to the transformed manifest of the
\* store, which is also what ssr-manifest.json holds, and the module served
\* under the template name exports exactly the transformed template of the
\* store, which is also what the written html file holds.
C22_ViewsAgree ==
    BuiltAndWritten =>
        /\ C22_FilesAgree
        /\ C22_ManifestModuleAgrees
        /\ imported.source = ConfiguredTemplateName =>
              /\ imported.loaded
              /\ ExportedString.ok /\ ExportedString.val = templateSource

\* ------------------------------------------------------------------------
\* Properties of the nesting of the builds
\* ------------------------------------------------------------------------
\* the position of buildStart as a number that grows with every step
Rank(pc) ==
    CASE pc = "config" -> 0
      [] pc = "configResolved" -> 1
      [] pc = "buildStart" -> 2
      [] pc = "build" -> 3
      [] pc = "harvest" -> 4
      [] pc = "transformManifest" -> 5
      [] pc = "writeManifest" -> 6
      [] pc = "transformTemplate" -> 7
      [] pc = "writeTemplate" -> 8
      [] pc = "done" -> 9
      [] pc = "generated" -> 10
      [] pc = "written" -> 11
      [] OTHER -> 12

\* one sub-build, started with ssr off, which can return or throw
C23_OnceInv ==
    /\ InLog("build") =>
          /\ Occurrences("build") = 1
          /\ bs.depth = 0
          /\ bs.subBuild.ssr = JSFalse
    /\ InLog("empty") => Occurrences("empty") = 1
    /\ bs.pc = "build" => ENABLED SubBuild

\* every step of the build moves it forward, and the step of the sub-build
\* clears nothing, harvests nothing and starts no sub-build
C23_OnceFrame ==
    /\ bs' # bs => Rank(bs'.pc) > Rank(bs.pc)
    /\ bs.pc = "build" =>
          /\ bs'.pc \in {"harvest", "failed"}
          /\ SelectSeq(bs'.log, IsManifestEvent) = <<>>
          /\ SelectSeq(bs'.log, IsTemplateEvent) = <<>>
          /\ disk'.entries = disk.entries
          /\ disk'.finalManifest = disk.finalManifest
          /\ disk'.finalTemplate = disk.finalTemplate
          /\ UNCHANGED <<manifestSource, templateSource, generateSSRBuild>>

\* C23: an SSR build calls the client sub-build once and buildStart comes
\* to an end: the sub-build is started with ssr off, so the plugin instance
\* inside it detects no SSR build, clears no directory, harvests nothing
\* and starts no sub-build of its own.
C23_SubBuildOnce == [](C23_OnceInv) /\ [][C23_OnceFrame]_vars

C23_Witness ==
    /\ bs.pc = "written" /\ generateSSRBuild
    /\ Preference = JSFalse
    /\ Occurrences("build") = 1 /\ bs.depth = 0
    /\ InLog("write manifest")
    /\ {".git", "old.js", "server.js"} \subseteq disk.entries

====
